---- MODULE Spec2Model ----
(***************************************************************************)
(* Projet capteur (CAPRA): CAN request/response firmware, src/src/main.cpp *)
(*                                                                         *)
(* loop() polls the CAN bus.  A received frame with identifier 0x1A4 is a  *)
(* request: its data bytes are markers, one per channel; the firmware      *)
(* reads the requested sensors, packs a 9-byte buffer (donnees) and sends  *)
(* frame 0x1A5 (bytes 0..7) and, if donnees[8] != 0, frame 0x1A6.          *)
(*                                                                         *)
(* Bytes are integers 0..255.  Arrays keep the source's 0-based indices.   *)
(* A float handed to encoder_float_entier is the rational n/d.             *)
(***************************************************************************)
EXTENDS Integers, Sequences, FiniteSets, TLC

VARIABLES
    pc,          \* position in loop(): "idle", "for", "testB"
                 \* (SpecEncodeur: "enc" before, "encode" after encoder_uint16)
    CAN_RX_msg,  \* static CAN_message_t CAN_RX_msg  [id, len, buf]
    CAN_TX_msg,  \* static CAN_message_t CAN_TX_msg  [id, len, buf]
    donnees,     \* uint8_t donnees[9]
    index,       \* size_t index (write cursor)
    i,           \* the for loop's counter
    sent,        \* frames handed to Can.write for the current request
    reads,       \* channels whose sensor accessors ran for the current request
    vals,        \* what those accessors returned, per channel
    debuts,      \* cursor value at the start of each loop iteration
    nreq         \* number of frames taken from the bus so far

vars == <<pc, CAN_RX_msg, CAN_TX_msg, donnees, index, i, sent, reads, vals,
          debuts, nreq>>

----------------------------------------------------------------------------
(* Program constants *)

ID_REQUETE == 420      \* 0x1A4
ID_TRAME_A == 421      \* 0x1A5
ID_TRAME_B == 422      \* 0x1A6
DEMANDE    == 17       \* 0x11
REMPLISSAGE == 255     \* 0xFF
TAILLE_DONNEES == 9    \* sizeof(donnees)
UINT16_MAX == 65535

(* Bounds of the model *)

MaxRequests == 2       \* frames taken from the bus in one behaviour

----------------------------------------------------------------------------
(* Input sets *)

Octet == 0..255
Longueurs == 0..8                          \* a CAN data length code
Marqueurs == {0, DEMANDE}                  \* marker bytes of Spec
MarqueursLarges == {0, 16, DEMANDE, 18, 255} \* marker bytes of SpecMarqueurs
AUTRE_ID == ID_REQUETE - 1                            \* an identifier that is not ours

\* Frames of declared length l: bytes 0..l-1 drawn from M, the rest 0.
Tampons(M, l) ==
    { [k \in 0..7 |-> IF k < l THEN f[k] ELSE 0] : f \in [0..(l - 1) -> M] }

Trames(M, L) ==
    UNION { { [id |-> ID_REQUETE, len |-> l, buf |-> b] : b \in Tampons(M, l) } : l \in L }

\* Frames for some other node: every length, every byte a request marker.
TramesAutres ==
    { [id |-> AUTRE_ID, len |-> l, buf |-> [k \in 0..7 |-> IF k < l THEN DEMANDE ELSE 0]] :
        l \in Longueurs }

\* What the sensor accessors of channel c may return.
Lectures(c) ==
    CASE c = 0 -> { <<300>> }                      \* SEN_094->value()
      [] c = 1 -> { <<40000>> }                  \* SCD41_Sensor.getCO2()
      [] c = 2 -> { <<30>> }                       \* MQ7->value()
      [] c = 3 -> { <<21, 20>>, <<-30, 20>> }      \* readTempC(), getTemperature()
      [] c = 4 -> { <<40, 45>> }                   \* readFloatHumidity(), getHumidity()
      [] c = 5 -> { <<101300>>, <<500>> }          \* readFloatPressure(), Pa
      [] OTHER -> { <<>> }

Aucune == [lecture |-> <<>>, ub |-> "sat"]

----------------------------------------------------------------------------
(* Conversions *)

\* Mutant: round to nearest instead of truncating.
Troncature_arrondi(n, d) ==
    IF n >= 0 THEN (2 * n + d) \div (2 * d) ELSE -((2 * (-n) + d) \div (2 * d))

\* Integer part of n/d, truncated toward zero (d > 0).
Troncature(n, d) == IF n >= 0 THEN n \div d ELSE -((-n) \div d)

\* static_cast<uint8_t>(float): the value when it fits; otherwise the
\* conversion is undefined and the build either saturates or wraps.
Cast_uint8(t, ub) ==
    IF t >= 0 /\ t <= 255 THEN t
    ELSE IF ub = "sat" THEN (IF t < 0 THEN 0 ELSE 255)
    ELSE t % 256

\* The outcomes a build can produce for the cast of t.
Issues(t) == IF t >= 0 /\ t <= 255 THEN {"sat"} ELSE {"sat", "wrap"}

\* Mutant: the cursor is advanced twice.
encoder_float_entier_deux(valeur, ub, memoire, idx) ==
    LET entier == Cast_uint8(Troncature(valeur.n, valeur.d), ub)
    IN  [memoire |-> [memoire EXCEPT ![idx] = entier], index |-> idx + 2]

encoder_float_entier(valeur, ub, memoire, idx) ==
    LET entier == Cast_uint8(Troncature(valeur.n, valeur.d), ub)
    IN  [memoire |-> [memoire EXCEPT ![idx] = entier], index |-> idx + 1]

\* Mutant: low-order byte first.
encoder_uint16_inverse(valeur, memoire, idx) ==
    [memoire |-> [memoire EXCEPT ![idx] = valeur % 256,
                                 ![idx + 1] = (valeur \div 256) % 256],
     index |-> idx + 2]

encoder_uint16(valeur, memoire, idx) ==
    [memoire |-> [memoire EXCEPT ![idx] = (valeur \div 256) % 256,
                                 ![idx + 1] = valeur % 256],
     index |-> idx + 2]

----------------------------------------------------------------------------
(* The body of the for loop, lines 173-234 *)

\* The float a channel hands to encoder_float_entier.  The readings of
\* Lectures are whole numbers small enough for float arithmetic to be exact
\* up to the truncation.
Flottant(c, lecture) ==
    CASE c = 3 -> [n |-> lecture[1] + lecture[2], d |-> 2]      \* (a + b) / 2
      [] c = 4 -> [n |-> lecture[1] + lecture[2], d |-> 2]
      [] c = 5 -> [n |-> lecture[1], d |-> 1000]                \* press_pa / 1000.0f

\* Mutant: the identifier test is missing.
Destinataire_tous(msg) == msg.id = msg.id

\* if (CAN_RX_msg.id == 0x1A4)
Destinataire(msg) == msg.id = ID_REQUETE

\* Mutant: the marker is not tested.
Demande_toujours(msg, c) == msg.buf[c] = msg.buf[c]

\* Mutant: any non-zero marker counts as a request.
Demande_nonNul(msg, c) == msg.buf[c] # 0

\* if (CAN_RX_msg.buf[i] == 0x11)
Demande(msg, c) == msg.buf[c] = DEMANDE

\* switch (i): read, encode, advance; default: nothing.
CasDemande(c, r, memoire, idx) ==
    CASE c \in 0..2 -> encoder_uint16(r.lecture[1], memoire, idx)
      [] c \in 3..5 -> encoder_float_entier(Flottant(c, r.lecture), r.ub, memoire, idx)
      [] OTHER -> [memoire |-> memoire, index |-> idx]

\* Mutant: a not-requested channel is filled with a single byte.
Remplir_unOctet(c, memoire, idx) ==
    IF idx < TAILLE_DONNEES
    THEN [memoire |-> [memoire EXCEPT ![idx] = REMPLISSAGE], index |-> idx + 1]
    ELSE [memoire |-> memoire, index |-> idx]

\* Mutant: the one-byte fill has no bounds guard.
Remplir_sansGarde(c, memoire, idx) ==
    IF c <= 2 /\ idx + 1 < TAILLE_DONNEES
    THEN [memoire |-> [memoire EXCEPT ![idx] = REMPLISSAGE, ![idx + 1] = REMPLISSAGE],
          index |-> idx + 2]
    ELSE [memoire |-> [k \in DOMAIN memoire |-> IF k = idx THEN REMPLISSAGE ELSE memoire[k]],
          index |-> idx + 1]

\* else: fill the channel's width with 0xFF, within the bounds of donnees.
Remplir(c, memoire, idx) ==
    IF c <= 2 /\ idx + 1 < TAILLE_DONNEES
    THEN [memoire |-> [memoire EXCEPT ![idx] = REMPLISSAGE, ![idx + 1] = REMPLISSAGE],
          index |-> idx + 2]
    ELSE IF idx < TAILLE_DONNEES
    THEN [memoire |-> [memoire EXCEPT ![idx] = REMPLISSAGE], index |-> idx + 1]
    ELSE [memoire |-> memoire, index |-> idx]

\* One iteration of the for loop for counter c, given what the sensors return.
Iteration(c, msg, r, memoire, idx) ==
    IF Demande(msg, c) THEN CasDemande(c, r, memoire, idx)
    ELSE Remplir(c, memoire, idx)

\* The whole for loop from counter c on, given every channel's reading.
RECURSIVE Boucle(_, _, _, _, _)
Boucle(c, msg, rd, memoire, idx) ==
    IF c >= msg.len THEN [memoire |-> memoire, index |-> idx]
    ELSE LET s == Iteration(c, msg, rd[c], memoire, idx)
         IN  Boucle(c + 1, msg, rd, s.memoire, s.index)

\* Mutant: the copy loop stops one byte early.
TrameA_sept(memoire) ==
    [id |-> ID_TRAME_A, len |-> 8, buf |-> [j \in 0..7 |-> IF j < 7 THEN memoire[j] ELSE 0]]

\* Frames built from the buffer, lines 236-252.
TrameA(memoire) ==
    [id |-> ID_TRAME_A, len |-> 8, buf |-> [j \in 0..7 |-> memoire[j]]]

TrameB(tx, memoire) ==
    [id |-> ID_TRAME_B, len |-> 1, buf |-> [tx.buf EXCEPT ![0] = memoire[8]]]

\* Mutant: the sentinel does not count as an encoded pressure.
EnvoiB_horsSentinelle(memoire) == memoire[8] # 0 /\ memoire[8] # REMPLISSAGE

EnvoiB(memoire) == memoire[8] # 0

\* Mutant: the buffer starts filled with the sentinel.
Zero9_FF == [k \in 0..8 |-> REMPLISSAGE]

Zero9 == [k \in 0..8 |-> 0]

\* Everything loop() writes to the bus for msg, given the readings rd.
Reponse(msg, rd) ==
    IF ~Destinataire(msg) THEN <<>>
    ELSE LET d == Boucle(0, msg, rd, Zero9, 0).memoire
             a == TrameA(d)
         IN  IF EnvoiB(d) THEN <<a, TrameB(a, d)>> ELSE <<a>>

----------------------------------------------------------------------------
(* State machine *)

MessageVide == [id |-> 0, len |-> 0, buf |-> [k \in 0..7 |-> 0]]

Init ==
    /\ pc = "idle"
    /\ CAN_RX_msg = MessageVide
    /\ CAN_TX_msg = MessageVide
    /\ donnees = Zero9
    /\ index = 0
    /\ i = 0
    /\ sent = <<>>
    /\ reads = <<>>
    /\ vals = [c \in 0..7 |-> Aucune]
    /\ debuts = <<>>
    /\ nreq = 0

\* Mutant: the payload buffer is a static that is not cleared per request.
Recevoir_sansRaz(F, max) ==
    /\ pc = "idle"
    /\ nreq < max
    /\ \E m \in F :
         /\ Destinataire(m)
         /\ CAN_RX_msg' = m
    /\ pc' = "for"
    /\ index' = 0
    /\ i' = 0
    /\ sent' = <<>>
    /\ reads' = <<>>
    /\ vals' = [c \in 0..7 |-> Aucune]
    /\ debuts' = <<>>
    /\ nreq' = nreq + 1
    /\ UNCHANGED <<CAN_TX_msg, donnees>>

\* Mutant: the bus is read from a callback, at any point of the processing.
Recevoir_sansAttendre(F, max) ==
    /\ nreq < max
    /\ \E m \in F :
         /\ Destinataire(m)
         /\ CAN_RX_msg' = m
    /\ pc' = "for"
    /\ donnees' = Zero9
    /\ index' = 0
    /\ i' = 0
    /\ sent' = <<>>
    /\ reads' = <<>>
    /\ vals' = [c \in 0..7 |-> Aucune]
    /\ debuts' = <<>>
    /\ nreq' = nreq + 1
    /\ UNCHANGED CAN_TX_msg

\* Can.read returns a frame addressed to this module: lines 162-170.
Recevoir(F, max) ==
    /\ pc = "idle"
    /\ nreq < max
    /\ \E m \in F :
         /\ Destinataire(m)
         /\ CAN_RX_msg' = m
    /\ pc' = "for"
    /\ donnees' = Zero9
    /\ index' = 0
    /\ i' = 0
    /\ sent' = <<>>
    /\ reads' = <<>>
    /\ vals' = [c \in 0..7 |-> Aucune]
    /\ debuts' = <<>>
    /\ nreq' = nreq + 1
    /\ UNCHANGED CAN_TX_msg

\* Can.read returns a frame with another identifier: lines 162-165, 253-255.
Ignorer(F, max) ==
    /\ pc = "idle"
    /\ nreq < max
    /\ \E m \in F :
         /\ ~Destinataire(m)
         /\ CAN_RX_msg' = m
    /\ nreq' = nreq + 1
    /\ UNCHANGED <<pc, CAN_TX_msg, donnees, index, i, sent, reads, vals, debuts>>

\* An iteration whose marker is 0x11, cases 0..5, the sensors returning one of
\* L[i]: lines 176-216.
LireEtEncoderDe(L) ==
    /\ pc = "for"
    /\ i < CAN_RX_msg.len
    /\ Demande(CAN_RX_msg, i)
    /\ i <= 5
    /\ \E l \in L[i] :
         \E ub \in (IF i >= 3 THEN Issues(Troncature(Flottant(i, l).n, Flottant(i, l).d))
                              ELSE {"sat"}) :
           LET r == [lecture |-> l, ub |-> ub]
               s == Iteration(i, CAN_RX_msg, r, donnees, index)
           IN  /\ donnees' = s.memoire
               /\ index' = s.index
               /\ vals' = [vals EXCEPT ![i] = r]
    /\ reads' = Append(reads, i)
    /\ debuts' = Append(debuts, index)
    /\ i' = i + 1
    /\ UNCHANGED <<pc, CAN_RX_msg, CAN_TX_msg, sent, nreq>>

LireEtEncoder == LireEtEncoderDe([c \in 0..5 |-> Lectures(c)])

\* An iteration whose marker is 0x11, default case: lines 176-178, 217-218.
CasParDefaut ==
    /\ pc = "for"
    /\ i < CAN_RX_msg.len
    /\ Demande(CAN_RX_msg, i)
    /\ i > 5
    /\ LET s == Iteration(i, CAN_RX_msg, Aucune, donnees, index)
       IN  /\ donnees' = s.memoire
           /\ index' = s.index
    /\ debuts' = Append(debuts, index)
    /\ i' = i + 1
    /\ UNCHANGED <<pc, CAN_RX_msg, CAN_TX_msg, sent, reads, vals, nreq>>

\* An iteration whose marker is not 0x11: lines 221-233.
RemplirCanal ==
    /\ pc = "for"
    /\ i < CAN_RX_msg.len
    /\ ~Demande(CAN_RX_msg, i)
    /\ LET s == Iteration(i, CAN_RX_msg, Aucune, donnees, index)
       IN  /\ donnees' = s.memoire
           /\ index' = s.index
    /\ debuts' = Append(debuts, index)
    /\ i' = i + 1
    /\ UNCHANGED <<pc, CAN_RX_msg, CAN_TX_msg, sent, reads, vals, nreq>>

\* Mutant: the first frame is sent from inside the for loop.
EnvoyerTrameA_dansBoucle ==
    /\ pc = "for"
    /\ sent = <<>>
    /\ CAN_TX_msg' = TrameA(donnees)
    /\ sent' = Append(sent, CAN_TX_msg')
    /\ pc' = (IF i < CAN_RX_msg.len THEN "for" ELSE "testB")
    /\ UNCHANGED <<CAN_RX_msg, donnees, index, i, reads, vals, debuts, nreq>>

\* The loop ends; first frame: lines 236-243.
EnvoyerTrameA ==
    /\ pc = "for"
    /\ ~(i < CAN_RX_msg.len)
    /\ CAN_TX_msg' = TrameA(donnees)
    /\ sent' = Append(sent, CAN_TX_msg')
    /\ pc' = "testB"
    /\ UNCHANGED <<CAN_RX_msg, donnees, index, i, reads, vals, debuts, nreq>>

\* Second frame: lines 246-252.
EnvoyerTrameB ==
    /\ pc = "testB"
    /\ EnvoiB(donnees)
    /\ CAN_TX_msg' = TrameB(CAN_TX_msg, donnees)
    /\ sent' = Append(sent, CAN_TX_msg')
    /\ pc' = "idle"
    /\ UNCHANGED <<CAN_RX_msg, donnees, index, i, reads, vals, debuts, nreq>>

\* No second frame: line 246 false, lines 253-255.
PasDeTrameB ==
    /\ pc = "testB"
    /\ ~EnvoiB(donnees)
    /\ pc' = "idle"
    /\ UNCHANGED <<CAN_RX_msg, CAN_TX_msg, donnees, index, i, sent, reads, vals,
                   debuts, nreq>>

Traiter ==
    \/ LireEtEncoder
    \/ CasParDefaut
    \/ RemplirCanal
    \/ EnvoyerTrameA
    \/ EnvoyerTrameB
    \/ PasDeTrameB

EntreesSpec == Trames(Marqueurs, Longueurs) \cup TramesAutres

Next ==
    \/ Recevoir(EntreesSpec, MaxRequests)
    \/ Ignorer(EntreesSpec, MaxRequests)
    \/ Traiter

Spec == Init /\ [][Next]_vars

\* The first frame after reset, its markers drawn from a wider alphabet.
EntreesLarges ==
    Trames(MarqueursLarges, {6}) \cup Trames({DEMANDE}, {7, 8}) \cup TramesAutres

NextMarqueurs ==
    \/ Recevoir(EntreesLarges, 1)
    \/ Ignorer(EntreesLarges, 1)
    \/ Traiter

SpecMarqueurs == Init /\ [][NextMarqueurs]_vars

\* encoder_uint16 alone: every 16-bit value, at the cursor of each 2-byte channel.
InitEncodeur ==
    \E c \in 0..2 : \E v \in 0..UINT16_MAX :
        /\ pc = "enc"
        /\ CAN_RX_msg = [id |-> ID_REQUETE, len |-> 6, buf |-> [k \in 0..7 |-> IF k < 6 THEN DEMANDE ELSE 0]]
        /\ CAN_TX_msg = MessageVide
        /\ donnees = Zero9
        /\ index = 2 * c
        /\ i = c
        /\ sent = <<>>
        /\ reads = <<>>
        /\ vals = [k \in 0..7 |-> IF k = c THEN [lecture |-> <<v>>, ub |-> "sat"] ELSE Aucune]
        /\ debuts = <<>>
        /\ nreq = 1

Encoder16 ==
    /\ pc = "enc"
    /\ LET s == encoder_uint16(vals[i].lecture[1], donnees, index)
       IN  /\ donnees' = s.memoire
           /\ index' = s.index
    /\ debuts' = <<index>>
    /\ pc' = "encode"
    /\ UNCHANGED <<CAN_RX_msg, CAN_TX_msg, i, sent, reads, vals, nreq>>

NextEncodeur == Encoder16

SpecEncodeur == InitEncodeur /\ [][NextEncodeur]_vars

\* The first frame after reset asks for every channel; the barometric sensor
\* returns any whole number of pascals whose kPa value fits a byte.
LecturesPression(c) ==
    CASE c = 3 -> { <<21, 20>> }
      [] c = 5 -> { <<p>> : p \in 0..(256 * 1000 - 1) }
      [] OTHER -> Lectures(c)

LireEtEncoderPression == LireEtEncoderDe([c \in 0..5 |-> LecturesPression(c)])

NextPression ==
    \/ Recevoir(Trames({DEMANDE}, {6}), 1)
    \/ LireEtEncoderPression
    \/ EnvoyerTrameA
    \/ EnvoyerTrameB
    \/ PasDeTrameB

SpecPression == Init /\ [][NextPression]_vars

----------------------------------------------------------------------------
(* Vocabulary of the properties *)

\* A request has been processed to the end and is still the last frame read.
Termine == pc = "idle" /\ CAN_RX_msg.id = ID_REQUETE

\* Width and first offset of channel c's region in the 9-byte payload.
Largeur(c) == IF c <= 2 THEN 2 ELSE 1
Decalage(c) == IF c <= 3 THEN 2 * c ELSE c + 3
Region(c) == Decalage(c) .. (Decalage(c) + Largeur(c) - 1)

\* Channel c's marker is present in the frame and equals 0x11.
CanalDemande(msg, c) == c < msg.len /\ msg.buf[c] = DEMANDE

TramesB == { k \in DOMAIN sent : sent[k].id = ID_TRAME_B }
TramesA == { k \in DOMAIN sent : sent[k].id = ID_TRAME_A }

----------------------------------------------------------------------------
(* C1: every processed 0x1A4 request, whatever its length and markers, has  *)
(* exactly one frame 0x1A5 on the bus, of length 8, whose data bytes 0..7   *)
(* are bytes 0..7 of the payload built for that request.                    *)
C1_TrameA ==
    Termine =>
        /\ Cardinality(TramesA) = 1
        /\ sent[1].id = ID_TRAME_A
        /\ sent[1].len = 8
        /\ \A j \in 0..7 : sent[1].buf[j] = donnees[j]

C1_Temoin ==
    /\ Termine
    /\ CAN_RX_msg.len = 0
    /\ Len(sent) = 1
    /\ nreq = 2

(* C2: when the Pressure marker is not 0x11, no frame 0x1A6 is sent.        *)
C2_PasDeTrameB ==
    (Termine /\ ~CanalDemande(CAN_RX_msg, 5)) => TramesB = {}

C4_RegionsFF ==
    Termine =>
        \A c \in 0..5 :
            ~CanalDemande(CAN_RX_msg, c) =>
                \A k \in Region(c) :
                    /\ donnees[k] = REMPLISSAGE
                    /\ k <= 7 => sent[1].buf[k] = REMPLISSAGE

(* C5: for a 6-byte request, whichever channels are requested, iteration c  *)
(* starts with the cursor at 0, 2, 4, 6, 7, 8 and the cursor ends at 9.     *)
C5_Curseur ==
    (CAN_RX_msg.id = ID_REQUETE /\ CAN_RX_msg.len = 6) =>
        /\ \A k \in DOMAIN debuts : debuts[k] = Decalage(k - 1)
        /\ Len(debuts) = i
        /\ index = (IF i = 6 THEN 9 ELSE Decalage(i))
        /\ Termine => index = 9

C5_Temoin ==
    /\ Termine
    /\ CAN_RX_msg.len = 6
    /\ reads = <<1, 4>>
    /\ debuts = <<0, 2, 4, 6, 7, 8>>
    /\ index = 9

(* C6: taking a frame whose identifier is not 0x1A4 sends nothing, reads no *)
(* sensor, and leaves the transmit message and the position untouched.      *)
C6_Ignore ==
    [][ (nreq' # nreq /\ CAN_RX_msg'.id # ID_REQUETE) =>
            /\ pc = "idle" /\ pc' = "idle"
            /\ UNCHANGED <<CAN_TX_msg, sent, reads, vals, donnees, index, i>> ]_vars

C6_Temoin ==
    /\ pc = "idle"
    /\ CAN_RX_msg.id = AUTRE_ID
    /\ CAN_RX_msg.len = 6
    /\ nreq = 1
    /\ sent = <<>>
    /\ reads = <<>>

(* C7: a channel is requested iff its marker is exactly 0x11: the frames   *)
(* sent for a 6-byte request are those of the request whose other markers  *)
(* are all 0x00, under the same readings; so two requests with the same    *)
(* 0x11 positions get the same frames.                                     *)
Canonique(msg) ==
    [msg EXCEPT !.buf = [k \in 0..7 |-> IF msg.buf[k] = DEMANDE THEN DEMANDE ELSE 0]]

C7_Marqueurs ==
    (Termine /\ CAN_RX_msg.len = 6) =>
        /\ sent = Reponse(Canonique(CAN_RX_msg), vals)
        /\ \A c \in 0..5 : (\E k \in DOMAIN reads : reads[k] = c) <=> CAN_RX_msg.buf[c] = DEMANDE

C7_Temoin ==
    /\ Termine
    /\ CAN_RX_msg.len = 6
    /\ CAN_RX_msg.buf = [k \in 0..7 |-> <<DEMANDE, 255, 16, DEMANDE, 18, 0, 0, 0>>[k + 1]]
    /\ reads = <<0, 3>>

C9_LSBdAbord ==
    Termine =>
        \A c \in 0..2 :
            CanalDemande(CAN_RX_msg, c) =>
                /\ sent[1].buf[2 * c] = vals[c].lecture[1] % 256
                /\ sent[1].buf[2 * c + 1] = vals[c].lecture[1] \div 256

(* C10: markers at indices 6 and 7 are ignored: their iterations read no    *)
(* sensor and write nothing, and a request of length 7 or 8 gets the frames *)
(* of the same request cut to its first 6 bytes.                            *)
Tronquee(msg) ==
    [msg EXCEPT !.len = 6, !.buf = [k \in 0..7 |-> IF k < 6 THEN msg.buf[k] ELSE 0]]

C10_AuDela ==
    /\ [](( Termine /\ CAN_RX_msg.len > 6 ) =>
            /\ sent = Reponse(Tronquee(CAN_RX_msg), vals)
            /\ \A k \in DOMAIN reads : reads[k] <= 5)
    /\ [][ (pc = "for" /\ i >= 6 /\ i' = i + 1) =>
            UNCHANGED <<donnees, index, sent, reads, vals>> ]_vars

C10_Temoin ==
    /\ Termine
    /\ CAN_RX_msg.len = 8
    /\ CAN_RX_msg.buf[6] = DEMANDE
    /\ CAN_RX_msg.buf[7] = 0
    /\ CAN_RX_msg.buf[5] = DEMANDE
    /\ Len(sent) = 2

(* C11: a requested Pressure of p pascals, 0 <= p/1000 < 256, puts p/1000  *)
(* truncated toward zero in payload byte 8; with every channel requested   *)
(* and 101300 Pa, frame 0x1A6 is sent with data byte 101.                  *)
C11_Pression ==
    (CAN_RX_msg.id = ID_REQUETE /\ CanalDemande(CAN_RX_msg, 5) /\ i > 5) =>
        LET p == vals[5].lecture[1]
            kPa == CHOOSE k \in 0..255 : 1000 * k <= p /\ p < 1000 * (k + 1)
        IN  /\ donnees[8] = kPa
            /\ (Termine /\ p = 101300) =>
                  /\ Len(sent) = 2
                  /\ sent[2].id = ID_TRAME_B
                  /\ sent[2].len = 1
                  /\ sent[2].buf[0] = 101

C11_Temoin ==
    /\ Termine
    /\ reads = <<0, 1, 2, 3, 4, 5>>
    /\ vals[5].lecture = <<101300>>
    /\ donnees[8] = 101
    /\ Len(sent) = 2

(* C12: nothing persists across requests: whatever was processed before,   *)
(* a request starts with an all-zero buffer and cursor 0, and the frames    *)
(* sent for it are those computed from its own length, markers and readings *)
(* alone; frame 0x1A5 has nothing of the previous transmit message.         *)
C12_SansMemoire ==
    /\ (pc = "for" /\ i = 0) => (donnees = Zero9 /\ index = 0)
    /\ (pc = "testB") =>
          /\ CAN_TX_msg = TrameA(Boucle(0, CAN_RX_msg, vals, Zero9, 0).memoire)
          /\ sent = <<CAN_TX_msg>>
    /\ Termine => sent = Reponse(CAN_RX_msg, vals)

C12_Temoin ==
    /\ Termine
    /\ nreq = 2
    /\ CAN_RX_msg.len = 0
    /\ CAN_TX_msg = TrameA(Zero9)
    /\ sent = <<CAN_TX_msg>>

(* C13: within one request, every read and fill precedes every             *)
(* transmission, frame 0x1A5 precedes frame 0x1A6, frame 0x1A6 never comes  *)
(* without frame 0x1A5 before it, and at most two frames are sent.          *)
C13_Ordre ==
    /\ [](/\ pc = "for" => sent = <<>>
          /\ Len(sent) <= 2
          /\ Len(sent) >= 1 => sent[1].id = ID_TRAME_A
          /\ Len(sent) = 2 => sent[2].id = ID_TRAME_B)
    /\ [][ (sent # <<>> /\ nreq' = nreq) =>
            UNCHANGED <<reads, vals, donnees, index, i>> ]_vars

C13_Temoin ==
    /\ Termine
    /\ CAN_RX_msg.len = 6
    /\ reads = <<0, 5>>
    /\ Len(sent) = 2
    /\ sent[1].id = ID_TRAME_A
    /\ sent[2].id = ID_TRAME_B

(* C14: the sensors of channel c are read only if marker c is present and  *)
(* equals 0x11, once per such channel, in ascending channel order.          *)
Canaux == <<0, 1, 2, 3, 4, 5>>
DemandeAvant(c) == c < i /\ CanalDemande(CAN_RX_msg, c)

C14_Lectures ==
    (CAN_RX_msg.id = ID_REQUETE) => reads = SelectSeq(Canaux, DemandeAvant)

C14_Temoin ==
    /\ Termine
    /\ CAN_RX_msg.len = 5
    /\ reads = <<1, 3, 4>>

(* C15: requests run to completion one at a time: a frame is taken from    *)
(* the bus only when the previous request has no read or transmission left, *)
(* and every read and transmission belongs to the last frame taken.         *)
C15_UnALaFois ==
    /\ [][ (nreq' # nreq) =>
            /\ pc = "idle"
            /\ (CAN_RX_msg.id = ID_REQUETE) =>
                  /\ sent = Reponse(CAN_RX_msg, vals)
                  /\ reads = SelectSeq(Canaux, LAMBDA c : CanalDemande(CAN_RX_msg, c)) ]_vars
    /\ [][ (nreq' = nreq /\ (sent' # sent \/ reads' # reads)) =>
            /\ pc # "idle"
            /\ CAN_RX_msg' = CAN_RX_msg
            /\ CAN_RX_msg.id = ID_REQUETE ]_vars

C15_Temoin ==
    /\ pc = "for"
    /\ nreq = 2
    /\ CAN_TX_msg.id = ID_TRAME_B
    /\ CAN_RX_msg.len = 6
    /\ reads = <<0, 1, 2, 3, 4, 5>>

(* C16: for a request of any length and markers, after k iterations the    *)
(* cursor is the sum of the widths of channels 0..min(k,6)-1, never above   *)
(* 9; every write lands below index 9, so the fill guards never skip or     *)
(* shorten the fill of a channel 0..5.                                      *)
RECURSIVE SommeLargeurs(_)
SommeLargeurs(k) == IF k = 0 THEN 0 ELSE SommeLargeurs(k - 1) + Largeur(k - 1)
Min(a, b) == IF a < b THEN a ELSE b

C16_Bornes ==
    (CAN_RX_msg.id = ID_REQUETE) =>
        /\ index = SommeLargeurs(Min(i, 6))
        /\ index <= TAILLE_DONNEES
        /\ Len(debuts) = i
        /\ \A k \in DOMAIN debuts :
              /\ debuts[k] = SommeLargeurs(Min(k - 1, 6))
              /\ k <= 6 => debuts[k] + Largeur(k - 1) - 1 < TAILLE_DONNEES
        /\ \A c \in 0..5 :
              (c < i /\ ~CanalDemande(CAN_RX_msg, c)) =>
                  \A k \in Region(c) : donnees[k] = REMPLISSAGE

C16_Temoin ==
    /\ pc = "for"
    /\ CAN_RX_msg.len = 8
    /\ i = 8
    /\ index = 9
    /\ debuts = <<0, 2, 4, 6, 7, 8, 9, 9>>
    /\ reads = <<2, 5>>

====
